---- MODULE Spec2Model ----
(***************************************************************************)
(* transcriptr (src/src/main.rs): a batch converter that reads a stream of *)
(* transcription JSON documents, indexes the speaker segments, rebuilds    *)
(* speaker-attributed lines from the items, sorts them by time and renders *)
(* them as text, HTML or JSON.                                             *)
(*                                                                         *)
(* main() is one straight-line run; pc is its position:                    *)
(*   "start" -> "ingest" -> "reconstruct" -> "sort" -> "render" -> "done"  *)
(* with the abnormal ends "failed" (an Err returned from main, or          *)
(* process::exit(1)) and "panicked" (an unwrap on None).                   *)
(*                                                                         *)
(* f64 seconds are fixed-point integers, Scale units per second.  JSON     *)
(* objects are records; a field that is absent in the JSON is absent from  *)
(* the record's DOMAIN.                                                    *)
(***************************************************************************)
EXTENDS Integers, Sequences, FiniteSets, TLC

VARIABLES
    pc,                   \* position in main()
    output_path,          \* --output
    output_format,        \* --format
    speaker_format,       \* --speaker_format, split at its "{}" placeholders
    line_break,           \* --line_break
    file_before,          \* the file at output_path before the run
    file_state,           \* the file at output_path now
    written,              \* what writeln! has put into the writer, in order
    json_written,         \* what serde_json::to_writer_pretty has put into it
    segs,                 \* history: every segment item read so far, in order
    late_segment,         \* history: a segment item arrived in a later
                          \* document than a timed item with its start_time
    ill_typed,            \* history: a document was read whose items or
                          \* segments are present but not an array
    speaker_start_times,  \* HashMap start_time string -> speaker label
    items,                \* Vec of transcription items
    idx,                  \* position of items.into_iter()
    lines,                \* Vec of (time, speaker, line)
    line,
    time,
    speaker,
    current_speaker

vars == <<pc, ill_typed, output_path, output_format, speaker_format, line_break,
          file_before, file_state, written, json_written, segs, late_segment,
          speaker_start_times, items, idx, lines, line, time, speaker,
          current_speaker>>

-----------------------------------------------------------------------------
(* Bounds of the explored inputs. *)

MaxItems == 3       \* transcription items in the whole stream
MaxSegs == 2        \* segment items in the whole stream
MaxLines == 2       \* lines handed to the renderers on their own

(* Fixed-point resolution of an f64 number of seconds. *)
Scale == 1000

-----------------------------------------------------------------------------
(* Input alphabets. *)

TimeStrs == {"0.5", "1.0", "1.00"}

\* segment items: {"start_time": ..., "speaker_label": ...}, either field
\* possibly missing
GoodSegItems ==
    { [start_time |-> "0.5", speaker_label |-> "spk_0"],
      [start_time |-> "1.0", speaker_label |-> "spk_1"],
      [start_time |-> "1.0", speaker_label |-> ""] }

BadSegItems ==
    { [speaker_label |-> "spk_0"], [start_time |-> "0.5"] }

SegItems == GoodSegItems \cup BadSegItems

\* the token of the n-th item of the stream: words are pairwise distinct
Word(n) == "w" \o ToString(n)

Punct(n) == IF n % 2 = 1 THEN "." ELSE ","

\* item shapes: the n-th item of the stream built from a shape
ItemShapes ==
    { [type |-> ty, start_time |-> st, content |-> TRUE] :
          ty \in {"pronunciation"}, st \in TimeStrs }
    \cup { [type |-> "punctuation", start_time |-> "1.0", content |-> TRUE],
           [type |-> "pronunciation", content |-> TRUE],
           [type |-> "punctuation", content |-> TRUE],
           [type |-> "pronunciation", content |-> FALSE] }

MakeItem(shape, n) ==
    LET alts == IF shape.content
                THEN << [content |-> IF shape.type = "punctuation"
                                     THEN Punct(n) ELSE Word(n)] >>
                ELSE << >>
    IN IF "start_time" \in DOMAIN shape
       THEN [type |-> shape.type, start_time |-> shape.start_time,
             alternatives |-> alts]
       ELSE [type |-> shape.type, alternatives |-> alts]

-----------------------------------------------------------------------------
(* Helpers of the ingest loop. *)

HasStartTime(item) == "start_time" \in DOMAIN item

\* HashMap::new()
EmptyMap == [k \in {} |-> ""]

\* an insert that keeps the label a key already has
InsertIfAbsent(map, k, v) ==
    [x \in DOMAIN map \cup {k} |-> IF x \in DOMAIN map THEN map[x] ELSE v]

\* HashMap::insert: the new label replaces an older one under the same key
Insert(map, k, v) ==
    [x \in DOMAIN map \cup {k} |-> IF x = k THEN v ELSE map[x]]

-----------------------------------------------------------------------------
(* Initial state: the command line and the file system before the run. *)

DefaultSpeakerFormat == << "", ":" >>       \* "{}:"

Init ==
    /\ pc = "start"
    /\ output_path \in {"-", "out.txt"}
    /\ output_format = "text"
    /\ speaker_format = DefaultSpeakerFormat
    /\ line_break = "auto"
    /\ file_before \in IF output_path = "-" THEN {"absent"} ELSE {"absent", "previous"}
    /\ file_state = file_before
    /\ written = << >>
    /\ json_written = << >>
    /\ segs = << >>
    /\ late_segment = FALSE
    /\ ill_typed = FALSE
    /\ speaker_start_times = EmptyMap
    /\ items = << >>
    /\ idx = 1
    /\ lines = << >>
    /\ line = ""
    /\ time = 0
    /\ speaker = "null"
    /\ current_speaker = "null"

-----------------------------------------------------------------------------
(* Opening the output, before any input is read. *)

\* File::create: creates the file, or truncates the one that is there
Create(f) == "created"

OpenOutput ==
    /\ pc = "start"
    /\ file_state' = IF output_path = "-" THEN file_state ELSE Create(file_state)
    /\ pc' = "ingest"
    /\ UNCHANGED <<ill_typed, output_path, output_format, speaker_format, line_break,
                   file_before, written, json_written, segs, late_segment,
                   speaker_start_times, items, idx, lines, line, time, speaker,
                   current_speaker>>

\* File::create fails: "Error creating the output file"
OpenOutputFails ==
    /\ pc = "start"
    /\ output_path # "-"
    /\ pc' = "failed"
    /\ UNCHANGED <<ill_typed, output_path, output_format, speaker_format, line_break,
                   file_before, file_state, written, json_written, segs,
                   late_segment, speaker_start_times, items, idx, lines, line,
                   time, speaker, current_speaker>>

-----------------------------------------------------------------------------
(* The ingest loop.  For each JSON value of the stream the loop body first  *)
(* walks the items of its segments (the two nested for loops) and then     *)
(* appends its transcription items.  The steps below are one iteration of  *)
(* the inner for loop and the append of one item; a document is any run of *)
(* ReadSegmentItem steps followed by any run of ReadItem steps, so every   *)
(* sequence of these steps is a stream of documents and every stream of    *)
(* documents is such a sequence.  A segment item read after a              *)
(* transcription item belongs to a later document than that item.          *)

\* one segment item: `item["start_time"].as_str().ok_or(..)?`,
\* `item["speaker_label"].as_str().ok_or(..)?`, then insert
IndexSegmentItem(map, s) ==
    IF "start_time" \notin DOMAIN s \/ "speaker_label" \notin DOMAIN s
    THEN [ok |-> FALSE, map |-> map]
    ELSE [ok |-> TRUE, map |-> Insert(map, s.start_time, s.speaker_label)]

ReadSegmentItem(s) ==
    /\ pc = "ingest"
    /\ Len(segs) < MaxSegs
    /\ LET r == IndexSegmentItem(speaker_start_times, s)
       IN /\ speaker_start_times' = r.map
          /\ IF r.ok
             THEN /\ pc' = pc
                  /\ segs' = Append(segs, s)
                  /\ late_segment' =
                       \/ late_segment
                       \/ \E j \in 1..Len(items) :
                             /\ HasStartTime(items[j])
                             /\ items[j].start_time = s.start_time
             ELSE /\ pc' = "failed"
                  /\ UNCHANGED <<segs, late_segment>>
    /\ UNCHANGED <<ill_typed, output_path, output_format, speaker_format, line_break,
                   file_before, file_state, written, json_written, items, idx,
                   lines, line, time, speaker, current_speaker>>

\* items.extend_from_slice(new_items), one element of new_items
ReadItem(shape) ==
    /\ pc = "ingest"
    /\ Len(items) < MaxItems
    /\ items' = Append(items, MakeItem(shape, Len(items) + 1))
    /\ UNCHANGED <<pc, ill_typed, output_path, output_format, speaker_format, line_break,
                   file_before, file_state, written, json_written, segs,
                   late_segment, speaker_start_times, idx, lines, line, time,
                   speaker, current_speaker>>

\* the stream yields an Err (syntax, eof, io or data): eprintln! and exit(1)
ReadError ==
    /\ pc = "ingest"
    /\ pc' = "failed"
    /\ UNCHANGED <<ill_typed, output_path, output_format, speaker_format, line_break,
                   file_before, file_state, written, json_written, segs,
                   late_segment, speaker_start_times, items, idx, lines, line,
                   time, speaker, current_speaker>>

\* a document whose results.items, or results.speaker_labels.segments, is
\* there but is no array: `.and_then(Value::as_array)` gives None, the
\* `if let` is not entered and the loop goes on to the next value
ReadIllTyped(field) ==
    /\ pc = "ingest"
    /\ field \in {"/results/items", "/results/speaker_labels/segments"}
    /\ ill_typed' = TRUE
    /\ UNCHANGED <<pc, output_path, output_format, speaker_format, line_break,
                   file_before, file_state, written, json_written, segs,
                   late_segment, speaker_start_times, items, idx, lines, line,
                   time, speaker, current_speaker>>

\* the stream is exhausted; lines, line, time, speaker and current_speaker
\* are created with the values Init gives them
EndOfStream ==
    /\ pc = "ingest"
    /\ pc' = "reconstruct"
    /\ UNCHANGED <<ill_typed, output_path, output_format, speaker_format, line_break,
                   file_before, file_state, written, json_written, segs,
                   late_segment, speaker_start_times, items, idx, lines, line,
                   time, speaker, current_speaker>>

-----------------------------------------------------------------------------
(* Reconstruction: the closure of try_for_each, once per item. *)

\* start_time_str.parse().unwrap_or(0.0)
ParseF64(s) ==
    CASE s = "0.5" -> Scale \div 2
      [] s = "1.0" -> Scale
      [] s = "1.00" -> Scale
      [] OTHER -> 0

HasContent(item) ==
    /\ Len(item.alternatives) >= 1
    /\ "content" \in DOMAIN item.alternatives[1]

\* item["alternatives"][0]["content"].as_str().unwrap()
Content(item) == item.alternatives[1].content

\* a lookup that keeps the old current_speaker when the map has no such key
LookupSpeakerOrKeep(map, item, cur) ==
    IF HasStartTime(item) /\ item.start_time \in DOMAIN map
    THEN [panic |-> FALSE, speaker |-> map[item.start_time]]
    ELSE [panic |-> FALSE, speaker |-> cur]

\* a lookup that forgets the speaker at an item without start_time
LookupSpeakerReset(map, item, cur) ==
    IF ~HasStartTime(item) THEN [panic |-> FALSE, speaker |-> "null"]
    ELSE IF item.start_time \in DOMAIN map
         THEN [panic |-> FALSE, speaker |-> map[item.start_time]]
         ELSE [panic |-> TRUE, speaker |-> cur]

\* current_speaker after the start_time branch:
\* speaker_start_times.get(start_time_str).unwrap().clone() for an item with
\* a start_time (the unwrap panics when the map has no such key), the old
\* current_speaker for an item without
LookupSpeaker(map, item, cur) ==
    IF ~HasStartTime(item) THEN [panic |-> FALSE, speaker |-> cur]
    ELSE IF item.start_time \in DOMAIN map
         THEN [panic |-> FALSE, speaker |-> map[item.start_time]]
         ELSE [panic |-> TRUE, speaker |-> cur]

\* lines.push((time, speaker, line))
Push(ls, t, spk, txt) == Append(ls, [time |-> t, speaker |-> spk, line |-> txt])

\* the flush on a speaker change: `if !speaker.is_empty() { lines.push(..) }`
FlushOnChange(ls, t, spk, txt) == IF spk # "" THEN Push(ls, t, spk, txt) ELSE ls

\* punctuation without start_time that takes the place of the open text
AfterUntimedFresh(txt, item, content) ==
    IF item.type = "punctuation" THEN content ELSE txt

\* the text that an item without start_time adds before the speaker check
AfterUntimed(txt, item, content) ==
    IF item.type = "punctuation" THEN txt \o content ELSE txt

\* the text of the open line when the speaker has not changed
AfterSameSpeaker(txt, item, content) ==
    IF item.type # "punctuation" THEN (txt \o " ") \o content ELSE txt

ProcessItem ==
    /\ pc = "reconstruct"
    /\ idx <= Len(items)
    /\ LET item == items[idx]
           timed == HasStartTime(item)
           found == LookupSpeaker(speaker_start_times, item, current_speaker)
       IN IF ~HasContent(item) \/ found.panic
          THEN /\ pc' = "panicked"
               /\ UNCHANGED <<idx, lines, line, time, speaker, current_speaker>>
          ELSE LET content == Content(item)
                   cs == found.speaker
                   t == IF timed THEN ParseF64(item.start_time) ELSE time
                   l1 == IF timed THEN line ELSE AfterUntimed(line, item, content)
               IN /\ current_speaker' = cs
                  /\ time' = t
                  /\ IF cs # speaker
                     THEN /\ lines' = FlushOnChange(lines, t, speaker, l1)
                          /\ line' = content
                          /\ speaker' = cs
                     ELSE /\ line' = AfterSameSpeaker(l1, item, content)
                          /\ UNCHANGED <<lines, speaker>>
                  /\ idx' = idx + 1
                  /\ pc' = pc
    /\ UNCHANGED <<ill_typed, output_path, output_format, speaker_format, line_break,
                   file_before, file_state, written, json_written, segs,
                   late_segment, speaker_start_times, items>>

\* a final push that, like the flush on a speaker change, skips a speaker
PushUnlessSentinel(ls, t, spk, txt) ==
    IF spk # "null" THEN Push(ls, t, spk, txt) ELSE ls

\* lines.push((time, speaker, line)) after the loop
FinalPush(ls, t, spk, txt) == Push(ls, t, spk, txt)

\* after the loop: the open line is pushed, whatever its speaker
FinalFlush ==
    /\ pc = "reconstruct"
    /\ idx > Len(items)
    /\ lines' = FinalPush(lines, time, speaker, line)
    /\ pc' = "sort"
    /\ UNCHANGED <<ill_typed, output_path, output_format, speaker_format, line_break,
                   file_before, file_state, written, json_written, segs,
                   late_segment, speaker_start_times, items, idx, line, time,
                   speaker, current_speaker>>

-----------------------------------------------------------------------------
(* lines.sort_by(|a, b| a.0.partial_cmp(&b.0).unwrap()): a stable sort by   *)
(* time.  Every time here is a finite number, so partial_cmp is never None. *)

\* a comparison that also moves an element behind its equals
GreaterOrEqual(a, b) == a.time >= b.time

\* a.0.partial_cmp(&b.0) == Some(Ordering::Greater)
Greater(a, b) == a.time > b.time

\* x put behind every element that is not greater than it
RECURSIVE InsertByTime(_, _)
InsertByTime(sorted, x) ==
    IF sorted = << >> THEN << x >>
    ELSE IF Greater(Head(sorted), x) THEN << x >> \o sorted
    ELSE << Head(sorted) >> \o InsertByTime(Tail(sorted), x)

RECURSIVE SortLines(_)
SortLines(ls) ==
    IF ls = << >> THEN << >>
    ELSE InsertByTime(SortLines(SubSeq(ls, 1, Len(ls) - 1)), ls[Len(ls)])

Sort ==
    /\ pc = "sort"
    /\ lines' = SortLines(lines)
    /\ pc' = "render"
    /\ UNCHANGED <<ill_typed, output_path, output_format, speaker_format, line_break,
                   file_before, file_state, written, json_written, segs,
                   late_segment, speaker_start_times, items, idx, line, time,
                   speaker, current_speaker>>

-----------------------------------------------------------------------------
(* The renderers. *)

\* Rust's integer / and %: the quotient is cut towards zero and the
\* remainder has the sign of the dividend
Quot(a, b) == IF a >= 0 THEN a \div b ELSE -((-a) \div b)

Rem(a, b) == a - b * Quot(a, b)

\* Duration::seconds_f64(time): the whole seconds of time, the fraction
\* (kept in the nanoseconds) cut off
SecondsF64(t) == [seconds |-> Quot(t, Scale)]

\* a conversion to whole seconds that cuts the fraction off
RoundDown(t) == Quot(t, Scale)

\* (time as &f64).round() as i64: to the nearest, a half away from zero
Round(t) ==
    IF t >= 0 THEN (2 * t + Scale) \div (2 * Scale)
    ELSE -((2 * (-t) + Scale) \div (2 * Scale))

\* Duration::seconds(n)
Seconds(n) == [seconds |-> n]

\* Duration::whole_hours, whole_minutes, whole_seconds
whole_hours(d) == Quot(d.seconds, 3600)

whole_minutes(d) == Quot(d.seconds, 60)

whole_seconds(d) == d.seconds

\* {:02}: at least two characters, the sign counted
Pad2(n) == IF 0 <= n /\ n < 10 THEN "0" \o ToString(n) ELSE ToString(n)

\* format!("{:02}:{:02}:{:02}", duration.whole_hours(),
\*         duration.whole_minutes() % 60, duration.whole_seconds() % 60)
Clock(d) ==
    Pad2(whole_hours(d)) \o ":" \o Pad2(Rem(whole_minutes(d), 60)) \o ":"
        \o Pad2(Rem(whole_seconds(d), 60))

\* speaker_format.replace("{}", &speaker), speaker_format given as the
\* pieces between its placeholders
RECURSIVE Replace(_, _)
Replace(pieces, spk) ==
    IF Len(pieces) <= 1 THEN (IF pieces = << >> THEN "" ELSE pieces[1])
    ELSE pieces[1] \o spk \o Replace(Tail(pieces), spk)

\* one formatted_line of the text format, with the newline of writeln!
TextLine(l, fmt, lb) ==
    "[" \o Clock(SecondsF64(l.time)) \o "] " \o Replace(fmt, l.speaker) \o " "
        \o l.line \o (IF lb = "auto" THEN "\n" ELSE "") \o "\n"

\* one formatted_line of the HTML format, with the newline of writeln!
HtmlLine(l, fmt) ==
    "[" \o Clock(SecondsF64(l.time)) \o "] <span class=\"speaker\">"
        \o Replace(fmt, l.speaker) \o "</span>: " \o l.line \o "<br>" \o "\n"

HtmlHead ==
    "<!DOCTYPE html>\n<html>\n<head>\n<title>Transcription</title>\n<style>\n.speaker { font-weight: bold; }\n</style>\n</head>\n<body>\n"

HtmlFoot == "</body>\n</html>\n"

\* an element with the speaker and the line in each other's place
JsonEntrySwapped(l) ==
    [time |-> Clock(Seconds(Round(l.time))), speaker |-> l.line, line |-> l.speaker]

\* one element of the "transcription" array
JsonEntry(l) ==
    [time |-> Clock(Seconds(Round(l.time))), speaker |-> l.speaker, line |-> l.line]

RenderText(ls, fmt, lb) == [i \in 1..Len(ls) |-> TextLine(ls[i], fmt, lb)]

RenderHtml(ls, fmt) ==
    << HtmlHead >> \o [i \in 1..Len(ls) |-> HtmlLine(ls[i], fmt)] \o << HtmlFoot >>

RenderJson(ls) == [transcription |-> [i \in 1..Len(ls) |-> JsonEntry(ls[i])]]

\* the match on output_format; the writer reaches the sink when main returns
Render ==
    /\ pc = "render"
    /\ written' = CASE output_format = "text" ->
                         RenderText(lines, speaker_format, line_break)
                    [] output_format = "html" -> RenderHtml(lines, speaker_format)
                    [] OTHER -> written
    /\ json_written' = IF output_format = "json"
                       THEN << RenderJson(lines) >> ELSE json_written
    /\ pc' = "done"
    /\ UNCHANGED <<ill_typed, output_path, output_format, speaker_format, line_break,
                   file_before, file_state, segs, late_segment,
                   speaker_start_times, items, idx, lines, line, time, speaker,
                   current_speaker>>

-----------------------------------------------------------------------------
Next ==
    \/ OpenOutput
    \/ OpenOutputFails
    \/ \E s \in SegItems : ReadSegmentItem(s)
    \/ \E shape \in ItemShapes : ReadItem(shape)
    \/ ReadError
    \/ EndOfStream
    \/ ProcessItem
    \/ FinalFlush
    \/ Sort
    \/ Render

Spec == Init /\ [][Next]_vars

\* the run on streams that may also hold documents with a field of the
\* wrong JSON type (in Spec such a document is a step that changes nothing)
NextIllTyped ==
    \/ Next
    \/ \E field \in {"/results/items", "/results/speaker_labels/segments"} :
          ReadIllTyped(field)

SpecIllTyped == Init /\ [][NextIllTyped]_vars


-----------------------------------------------------------------------------
(* Helpers of the properties. *)

Last(s) == s[Len(s)]

TimedItems == { i \in 1..Len(items) : HasStartTime(items[i]) }

Reconstructed == pc \in {"sort", "render", "done"}

\* the speaker an item is attributed to: the label of its start_time, or
\* for an item without start_time the speaker of the item before it
RECURSIVE AttributedSpeaker(_)
AttributedSpeaker(i) ==
    IF i = 0 THEN "null"
    ELSE IF HasStartTime(items[i]) THEN speaker_start_times[items[i].start_time]
    ELSE AttributedSpeaker(i - 1)

\* the speaker turns of the input: the maximal runs of consecutive items
\* attributed to one speaker
SpeakerTurns ==
    Cardinality({ i \in 1..Len(items) :
                    AttributedSpeaker(i) # AttributedSpeaker(i - 1) })

-----------------------------------------------------------------------------
(* C1: when the input has a timed item, the reconstructed lines hold no    *)
(* line of the sentinel speaker (the accumulator that was open before the  *)
(* first timed item is dropped, not flushed) and exactly one line per      *)
(* speaker turn.                                                           *)
C1_SentinelNeverEmitted ==
    (pc = "sort" /\ TimedItems # {}) =>
        /\ \A j \in 1..Len(lines) : lines[j].speaker # "null"
        /\ Len(lines) = SpeakerTurns

(* C2: the time of a line is the start_time of the item that opened it: a  *)
(* timed item of the same speaker leaves the time of the open line alone,  *)
(* and a line flushed on a speaker change carries the time its accumulator *)
(* had before the item that closes it.                                     *)
C2_LineTimeIsOpeningTime ==
    [][(pc = "reconstruct" /\ pc' = "reconstruct" /\ speaker # "null") =>
          /\ speaker' = speaker => time' = time
          /\ Len(lines') > Len(lines) => Last(lines').time = time]_vars

(* C3: an item whose speaker is the speaker of the open line appends its   *)
(* content to the line: with no space before it when it is punctuation,    *)
(* timed or not, and behind exactly one space otherwise.                   *)
C3_SameSpeakerAppends ==
    [][(pc = "reconstruct" /\ idx' = idx + 1 /\ current_speaker' = speaker) =>
          line' = IF items[idx].type = "punctuation"
                  THEN line \o Content(items[idx])
                  ELSE (line \o " ") \o Content(items[idx])]_vars

-----------------------------------------------------------------------------
IsSortedByTime(ls) == \A i \in 1..(Len(ls) - 1) : ls[i].time <= ls[i + 1].time

\* the lines of ls that carry time t, in their order in ls
WithTime(ls, t) == LET AtT(l) == l.time = t IN SelectSeq(ls, AtT)

(* C4: the sort hands the renderer the flushed lines in non-decreasing     *)
(* order of time, and the lines of one time in the order they were flushed *)
(* in.                                                                     *)
C4_SortedByTimeStable ==
    [][(pc = "sort" /\ pc' = "render") =>
          /\ Len(lines') = Len(lines)
          /\ IsSortedByTime(lines')
          /\ \A i \in 1..Len(lines) :
                WithTime(lines', lines[i].time) = WithTime(lines, lines[i].time)]_vars

\* sorted lines of an input whose timestamps go backwards, two different
\* lines of them with one time
C4_Witness ==
    /\ pc = "render"
    /\ \E i, j \in TimedItems :
          /\ i < j
          /\ ParseF64(items[i].start_time) > ParseF64(items[j].start_time)
    /\ \E a, b \in 1..Len(lines) :
          a < b /\ lines[a].time = lines[b].time /\ lines[a] # lines[b]

-----------------------------------------------------------------------------
\* the segment items read with start_time k, by position in the stream
SegsAt(k) == { i \in 1..Len(segs) : segs[i].start_time = k }

\* the label of the last segment item of the stream with start_time k
LastLabel(k) ==
    segs[CHOOSE i \in SegsAt(k) : \A j \in SegsAt(k) : j <= i].speaker_label

(* C5: once the items are processed the index holds, for every start_time  *)
(* string of a segment item of the whole stream, the label of the last     *)
(* segment item with that string; a timed item is given that label, and    *)
(* fails to resolve only when no segment item has textually its            *)
(* start_time.                                                             *)
C5_IndexCompleteLastWins ==
    /\ pc \notin {"start", "ingest", "failed"} =>
          /\ DOMAIN speaker_start_times = { segs[i].start_time : i \in 1..Len(segs) }
          /\ \A k \in DOMAIN speaker_start_times :
                speaker_start_times[k] = LastLabel(k)
    /\ (idx > 1 /\ HasStartTime(items[idx - 1])) =>
          /\ SegsAt(items[idx - 1].start_time) # {}
          /\ current_speaker = LastLabel(items[idx - 1].start_time)
          /\ speaker = current_speaker
    /\ (pc = "panicked" /\ HasContent(items[idx])) =>
          /\ HasStartTime(items[idx])
          /\ SegsAt(items[idx].start_time) = {}

\* a timed item resolved through a start_time that two segment items give
\* different labels, one of them read in a later document than the item
C5_Witness ==
    /\ pc = "reconstruct"
    /\ idx > 1
    /\ HasStartTime(items[idx - 1])
    /\ late_segment
    /\ \E i, j \in SegsAt(items[idx - 1].start_time) :
          i < j /\ segs[i].speaker_label # segs[j].speaker_label

-----------------------------------------------------------------------------
\* an item the closure cannot process: no alternatives[0].content, or a
\* start_time the index has no entry for
Offending(item) ==
    \/ ~HasContent(item)
    \/ HasStartTime(item) /\ item.start_time \notin DOMAIN speaker_start_times

Aborted == pc \in {"failed", "panicked"}

NothingWritten == written = << >> /\ json_written = << >>

(* C6: reconstruction never passes over an offending item: the run ends in *)
(* the error state at the first one, with its speaker not taken from       *)
(* anywhere else, and a run that ended there has written nothing; lines    *)
(* are sorted and rendered only when every item was processed.             *)
C6_StructuralViolationAborts ==
    /\ \A i \in 1..(idx - 1) : ~Offending(items[i])
    /\ pc = "panicked" => (Offending(items[idx]) /\ NothingWritten)
    /\ Reconstructed => idx = Len(items) + 1
    /\ ~NothingWritten => pc = "done"

\* the run aborted at a timed item without index entry, after lines had
\* already been flushed
C6_Witness ==
    /\ pc = "panicked"
    /\ HasContent(items[idx])
    /\ HasStartTime(items[idx])
    /\ lines # << >>
    /\ NothingWritten

-----------------------------------------------------------------------------
(* C7: a run that fails (a segment item without speaker_label or           *)
(* start_time, a parse error, a structural error) leaves the output        *)
(* untouched: the output file is as it was before the run, neither created *)
(* nor truncated, and nothing has been written.                            *)
C7_FailedRunLeavesOutputUntouched ==
    Aborted => (file_state = file_before /\ NothingWritten)

-----------------------------------------------------------------------------
\* the result the claims C8 give an input without timed items: no failure,
\* and after the final flush exactly one line, of the sentinel speaker
OneSentinelLine ==
    /\ pc # "panicked"
    /\ Reconstructed =>
          /\ Len(lines) = 1
          /\ lines[1].speaker = "null"
          /\ lines[1].time = 0

(* C8 as stated: for every input without timed items reconstruction does   *)
(* not fail and yields one line (never more), the open accumulator being   *)
(* flushed although its speaker is still the sentinel.                     *)
C8_ZeroTimedNeverFails ==
    (pc \notin {"start", "ingest", "failed"} /\ TimedItems = {}) => OneSentinelLine

(* C8 as amended: the same, for every input without timed items in which   *)
(* every item has its alternatives[0].content.                             *)
C8_ZeroTimedWithContent ==
    ( /\ pc \notin {"start", "ingest", "failed"}
      /\ TimedItems = {}
      /\ \A i \in 1..Len(items) : HasContent(items[i]) ) => OneSentinelLine

\* the one line of an input of two or more items, none timed
C8_Witness ==
    /\ pc = "sort"
    /\ Len(items) >= 2
    /\ TimedItems = {}
    /\ \E i \in 1..Len(items) : items[i].type = "punctuation"
    /\ \E i \in 1..Len(items) : items[i].type = "pronunciation"
    /\ Len(lines) = 1
    /\ lines[1].speaker = "null"

-----------------------------------------------------------------------------
(* The renderers on their own: any sorted list of lines, rendered under    *)
(* any of the formatting options.                                          *)

\* times in units of 1/Scale s: -1.5, 0, 1.499, 1.5, 59.5, 3599.999, 100 h
RenderTimes == {-1500, 0, 1499, 1500, 59500, 3599999, 360000000}

RenderLines ==
    [time : RenderTimes, speaker : {"spk_0", ""}, line : {"w1.", "w1 w2"}]

\* "{}:" and "[{}] -"
SpeakerFormats == { DefaultSpeakerFormat, << "[", "] -" >> }

InitRender ==
    /\ pc = "render"
    /\ output_path = "-"
    /\ output_format \in {"text", "html", "json"}
    /\ speaker_format \in SpeakerFormats
    /\ line_break \in {"auto", "manual"}
    /\ file_before = "absent"
    /\ file_state = "absent"
    /\ written = << >>
    /\ json_written = << >>
    /\ segs = << >>
    /\ late_segment = FALSE
    /\ ill_typed = FALSE
    /\ speaker_start_times = EmptyMap
    /\ items = << >>
    /\ idx = 1
    /\ lines \in { ls \in UNION { [1..n -> RenderLines] : n \in 0..MaxLines } :
                     IsSortedByTime(ls) }
    /\ line = ""
    /\ time = 0
    /\ speaker = "null"
    /\ current_speaker = "null"

NextRender == Render

SpecRender == InitRender /\ [][NextRender]_vars

-----------------------------------------------------------------------------
\* HH:MM:SS of s whole seconds, s >= 0
HMS(s) ==
    Pad2(s \div 3600) \o ":" \o Pad2((s \div 60) % 60) \o ":" \o Pad2(s % 60)

\* the time t >= 0 cut down to whole seconds
Floor(t) == t \div Scale

\* one second more than Floor(t) when the fraction of t is a half or more
Nearest(t) == IF 2 * (t % Scale) >= Scale THEN Floor(t) + 1 ELSE Floor(t)

(* C9: for a line time t >= 0 the text and the HTML output show the        *)
(* HH:MM:SS of t cut down to whole seconds, and the JSON output that of t  *)
(* rounded to the nearest second: one second later when the fraction of t  *)
(* is a half or more, and the same otherwise.                              *)
C9_ClockTruncatesOrRounds ==
    pc = "done" =>
       \A i \in 1..Len(lines) :
          LET l == lines[i] IN
          l.time >= 0 =>
             CASE output_format = "text" ->
                    written[i] = "[" \o HMS(Floor(l.time)) \o "] "
                                     \o Replace(speaker_format, l.speaker) \o " "
                                     \o l.line
                                     \o (IF line_break = "auto" THEN "\n\n" ELSE "\n")
               [] output_format = "html" ->
                    written[i + 1] = "[" \o HMS(Floor(l.time))
                                         \o "] <span class=\"speaker\">"
                                         \o Replace(speaker_format, l.speaker)
                                         \o "</span>: " \o l.line \o "<br>\n"
               [] output_format = "json" ->
                    json_written[1].transcription[i].time = HMS(Nearest(l.time))

\* JSON output of a line 59.5 s in: the minute is already full
C9_Witness ==
    /\ pc = "done"
    /\ output_format = "json"
    /\ \E i \in 1..Len(lines) :
          /\ lines[i].time = 59500
          /\ json_written[1].transcription[i].time = "00:01:00"

-----------------------------------------------------------------------------
(* C10: the text and the JSON output of one list of lines have the same    *)
(* number of entries, and entry by entry the text output is the text line  *)
(* of the speaker and the line that the JSON entry holds.                  *)
C10_TextAndJsonAgree ==
    (pc = "done" /\ output_format \in {"text", "json"}) =>
       LET T == IF output_format = "text" THEN written
                ELSE RenderText(lines, speaker_format, line_break)
           J == IF output_format = "json" THEN json_written[1].transcription
                ELSE RenderJson(lines).transcription
       IN /\ Len(T) = Len(J)
          /\ Len(T) = Len(lines)
          /\ \A i \in 1..Len(T) :
                T[i] = TextLine([time |-> lines[i].time, speaker |-> J[i].speaker,
                                 line |-> J[i].line], speaker_format, line_break)

\* JSON output of two lines that differ in speaker and in text
C10_Witness ==
    /\ pc = "done"
    /\ output_format = "json"
    /\ Len(lines) >= 2
    /\ lines[1].speaker # lines[2].speaker
    /\ lines[1].line # lines[2].line
    /\ Len(json_written[1].transcription) = Len(lines)

-----------------------------------------------------------------------------
\* a step of the item loop that processed items[idx]
Processed == pc = "reconstruct" /\ idx' = idx + 1

(* C11: an item without start_time changes neither the candidate speaker   *)
(* nor the candidate time and flushes nothing: the completed lines and the *)
(* speaker of the open line stay as they are and the text of the open line *)
(* gets longer; and after every processed item the candidate speaker is    *)
(* the speaker of the open line.                                           *)
C11_UntimedItemOnlyGrowsText ==
    [][Processed =>
          /\ current_speaker' = speaker'
          /\ ~HasStartTime(items[idx]) =>
                /\ current_speaker' = current_speaker
                /\ time' = time
                /\ lines' = lines
                /\ speaker' = speaker
                /\ Len(line') > Len(line)]_vars

\* an item without start_time was processed while the line of a speaker
\* from the index was open and a line had been flushed
C11_Witness ==
    /\ pc = "reconstruct"
    /\ idx > 2
    /\ ~HasStartTime(items[idx - 1])
    /\ HasStartTime(items[idx - 2])
    /\ lines # << >>
    /\ speaker = "spk_0"
    /\ current_speaker = speaker

-----------------------------------------------------------------------------
(* C12 as stated: a punctuation token never starts a line: the item that   *)
(* opens a new accumulator on a speaker change is not punctuation.         *)
C12_PunctuationNeverStartsLine ==
    [][(Processed /\ speaker' # speaker) =>
          items[idx].type # "punctuation"]_vars

(* C12 as amended: a punctuation token without start_time never starts a   *)
(* line: the item that opens a new accumulator on a speaker change carries *)
(* a start_time and its content is the whole new text, and punctuation     *)
(* without start_time is put at the end of the line that is open, whose    *)
(* speaker and completed lines stay.                                       *)
C12_UntimedPunctuationNeverStartsLine ==
    [][Processed =>
          /\ speaker' # speaker =>
                (HasStartTime(items[idx]) /\ line' = Content(items[idx]))
          /\ (~HasStartTime(items[idx]) /\ items[idx].type = "punctuation") =>
                /\ speaker' = speaker
                /\ lines' = lines
                /\ line' = line \o Content(items[idx])]_vars

\* punctuation without start_time put behind the word that opened the line
\* of a speaker from the index
C12_Witness ==
    /\ pc = "reconstruct"
    /\ idx > 2
    /\ HasStartTime(items[idx - 2])
    /\ items[idx - 2].type = "pronunciation"
    /\ ~HasStartTime(items[idx - 1])
    /\ items[idx - 1].type = "punctuation"
    /\ speaker # "null"
    /\ line = Content(items[idx - 2]) \o Content(items[idx - 1])

-----------------------------------------------------------------------------
(* C13: a document in which results.items or                               *)
(* results.speaker_labels.segments is present but not an array is a fatal  *)
(* error: once such a document was read the run is aborted, it does not go *)
(* on to reconstruct and render as if the field were absent.               *)
C13_WrongTypeIsFatal ==
    ill_typed => pc \notin {"reconstruct", "sort", "render", "done"}

-----------------------------------------------------------------------------
\* the texts of the lines ls, one behind the other
RECURSIVE ConcatLines(_)
ConcatLines(ls) ==
    IF ls = << >> THEN "" ELSE Head(ls).line \o ConcatLines(Tail(ls))

\* the contents of the first n items, one behind the other, each once; a
\* joining space stands before an item that is not punctuation and goes on
\* the line of the item before it
RECURSIVE ConcatContents(_)
ConcatContents(n) ==
    IF n = 0 THEN ""
    ELSE ConcatContents(n - 1)
           \o (IF /\ items[n].type # "punctuation"
                  /\ AttributedSpeaker(n) = AttributedSpeaker(n - 1)
               THEN " " ELSE "")
           \o Content(items[n])

(* C14: no token is lost or doubled: after the final flush the texts of    *)
(* the lines in flush order, one behind the other, are the contents of all *)
(* items in item order, each exactly once (joining spaces aside).          *)
C14_NoTokenLostOrDoubled ==
    pc = "sort" => ConcatLines(lines) = ConcatContents(Len(items))

-----------------------------------------------------------------------------
(* C15: in flush order no two neighbouring lines have the same speaker.    *)
C15_NeighbouringLinesDiffer ==
    pc \in {"reconstruct", "sort"} =>
       \A i \in 1..(Len(lines) - 1) : lines[i].speaker # lines[i + 1].speaker

====
